---- MODULE Spec2Model ----
(***************************************************************************)
(* Order pricing, coupon redemption and order-status handling of the       *)
(* creed backend: the order controller (two variants), the admin            *)
(* controller's order handlers, the payment controller, the coupon          *)
(* controller and the Order / Coupon / Product schemas they act on.         *)
(*                                                                          *)
(* Every handler is an async function: each `await` on the document store   *)
(* is a point where other requests may run, so a handler is a sequence of   *)
(* steps, one per store access, working on the documents it read.           *)
(* Money is counted in paise (1/100 rupee) so that the percentage and tax   *)
(* divisions of the code are exact on whole-rupee prices.                   *)
(***************************************************************************)
EXTENDS Integers, Sequences, FiniteSets, TLC

VARIABLES
    stock,      \* Product.stock, per product
    soldCount,  \* Product.soldCount, per product
    orders,     \* the orders collection, in creation order (index = _id)
    coupon,     \* the coupon document with code CouponCode
    req,        \* the requests in flight: handler, position, arguments, locals
    released,   \* per order: how many times its lines were put back on stock
    variant,    \* which revision of the order controller is deployed
    calls,      \* handler invocations so far (also the clock behind new Date())
    faults      \* store writes that have thrown so far

vars == <<stock, soldCount, orders, coupon, req, released, variant, calls, faults>>

\* ---------------------------------------------------------------- bounds
MaxReq == 2
MaxCalls == 3
MaxOrders == 2
MaxLines == 2
MaxQty == 2
MaxStock == 3
MaxFaults == 1

\* ---------------------------------------------------------------- domains
\* null / undefined: of a string, of a number, of a sub-document
Null == "null"
Undefined == "undefined"
NoNumber == 0 - 1
None == <<>>
Some(x) == <<x>>

Requests == 1..MaxReq
Users == {"u1", "u2"}
Customers == {"u1"}
Admin == "admin"
Actors == Users \cup {Admin}

\* the catalog: p1 can be ordered, p2 is not active, p0 is no product
Products == {"p1", "p2"}
ProductIds == Products \cup {"p0"}
productStatus == [p \in Products |-> IF p = "p2" THEN "inactive" ELSE "active"]
productPrice == [p \in Products |-> IF p = "p1" THEN 10000 ELSE 4000]
productGst == [p \in Products |-> IF p = "p1" THEN 18 ELSE NoNumber]
Categories == {"c1", "c2"}
productCategory == [p \in Products |-> IF p = "p1" THEN "c1" ELSE "c2"]

OrderStatuses ==
    {"pending", "confirmed", "processing", "shipped", "delivered",
     "cancelled", "refunded", "returned"}
PaymentStatuses == {"pending", "processing", "completed", "failed", "refunded"}
PaymentMethods == {"cod", "razorpay"}
Variants == {"v5", "v4"}

CouponCode == "SAVE10"
CouponInputs == {Null, "save10", "nope"}
ToUpperCase(s) ==
    CASE s = "save10" -> "SAVE10"
      [] s = "nope" -> "NOPE"
      [] OTHER -> s

Lines == [product : ProductIds, quantity : 1..MaxQty]
RECURSIVE SeqsUpTo(_, _)
SeqsUpTo(S, n) ==
    IF n = 0 THEN {<<>>}
    ELSE LET shorter == SeqsUpTo(S, n - 1)
         IN shorter \cup {Append(s, x) : s \in {t \in shorter : Len(t) = n - 1}, x \in S}
Carts == SeqsUpTo(Lines, MaxLines) \ {<<>>}

\* ---------------------------------------------------------------- helpers
RECURSIVE SumSeq(_)
SumSeq(s) == IF s = <<>> THEN 0 ELSE Head(s) + SumSeq(Tail(s))

Min(a, b) == IF a < b THEN a ELSE b

\* quantity of product p over the lines of a cart or of an order
QtyOf(items, p) ==
    SumSeq([i \in 1..Len(items) |->
              IF items[i].product = p THEN items[i].quantity ELSE 0])

\* ---------------------------------------------------------------- helpers.js
\* Math.round(x / 100) for x >= 0: half rounds up
RoundDiv100(x) == (x + 50) \div 100

\* calculateTax(amount, taxRate = 0.08), amount in paise
calculateTax(amount) == RoundDiv100(amount * 8)

\* calculateShippingCost(weight, distance, shippingMethod), result in paise:
\* (5 + weight * 0.5 + distance * 0.1) * multiplier
calculateShippingCost(weight, distance, shippingMethod) ==
    LET multiplier == CASE shippingMethod = "express" -> 2
                        [] shippingMethod = "overnight" -> 3
                        [] OTHER -> 1
    IN (500 + weight * 50 + distance * 10) * multiplier

\* ---------------------------------------------------------------- Coupon
\* couponSchema.virtual("isCurrentlyValid")
isCurrentlyValid(c, now) ==
    /\ c.isActive
    /\ c.validFrom <= now
    /\ c.validUntil >= now
    /\ (c.usageLimit = NoNumber \/ c.usedCount < c.usageLimit)

\* couponSchema.methods.isValidForUser; orderAmount may be undefined, and a
\* comparison with undefined is false
isValidForUser(c, userId, orderAmount, userOrderCount, now) ==
    LET userUsageCount ==
            Cardinality({i \in 1..Len(c.usageHistory) : c.usageHistory[i].user = userId})
    IN IF ~isCurrentlyValid(c, now) THEN FALSE
       ELSE IF orderAmount # NoNumber /\ orderAmount < c.minimumOrderAmount THEN FALSE
       ELSE IF c.firstTimeUserOnly /\ userOrderCount > 0 THEN FALSE
       ELSE IF userUsageCount >= c.usageLimitPerUser THEN FALSE
       ELSE IF c.applicableUsers # {} THEN userId \in c.applicableUsers
       ELSE TRUE

\* couponSchema.methods.calculateDiscount; Math.min(x, undefined) is NaN
NaN == 0 - 2
calculateDiscount(c, orderAmount) ==
    IF orderAmount = NoNumber THEN NaN
    ELSE LET base == IF c.type = "percentage" THEN (orderAmount * c.value) \div 100
                     ELSE IF c.type = "fixed" THEN c.value
                     ELSE 0
             capped == IF c.maximumDiscountAmount # NoNumber /\ c.maximumDiscountAmount # 0
                          /\ base > c.maximumDiscountAmount
                       THEN c.maximumDiscountAmount
                       ELSE base
         IN Min(capped, orderAmount)

\* the coupons an admin has created (createCoupon), before any redemption
CouponConfigs ==
    { [isActive |-> TRUE, validFrom |-> 0, validUntil |-> 1000,
       type |-> "percentage", value |-> 10,
       minimumOrderAmount |-> 5000, maximumDiscountAmount |-> 1500,
       usageLimit |-> 1, usageLimitPerUser |-> 1,
       applicableUsers |-> {}, firstTimeUserOnly |-> FALSE,
       applicableProducts |-> {}, applicableCategories |-> {},
       excludedProducts |-> {}, excludedCategories |-> {},
       usedCount |-> 0, usageHistory |-> <<>>],
      [isActive |-> TRUE, validFrom |-> 0, validUntil |-> 1000,
       type |-> "fixed", value |-> 50000,
       minimumOrderAmount |-> 0, maximumDiscountAmount |-> NoNumber,
       usageLimit |-> NoNumber, usageLimitPerUser |-> 2,
       applicableUsers |-> {}, firstTimeUserOnly |-> TRUE,
       applicableProducts |-> {}, applicableCategories |-> {},
       excludedProducts |-> {}, excludedCategories |-> {},
       usedCount |-> 0, usageHistory |-> <<>>] }

\* ---------------------------------------------------------------- requests
IdleReq ==
    [op |-> "none", pc |-> "idle", code |-> 0, msg |-> "", order |-> 0,
     a |-> <<>>, l |-> <<>>]

Running(r) == req[r].pc \notin {"idle", "done"}
Quiet == \A r \in Requests : ~Running(r)
CanStart(r) == ~Running(r) /\ calls < MaxCalls

\* the response: res.status(code).json({message}); the handler returns and
\* its arguments and locals are gone
Respond(r, code, msg) ==
    [req[r] EXCEPT !.pc = "done", !.code = code, !.msg = msg, !.a = <<>>, !.l = <<>>]

\* the store as it was when a createOrder request arrived
Snapshot ==
    [stock |-> stock, soldCount |-> soldCount, orders |-> Len(orders),
     usedCount |-> coupon.usedCount, usageHistory |-> Len(coupon.usageHistory)]

Init ==
    /\ stock = [p \in Products |-> MaxStock]
    /\ soldCount = [p \in Products |-> 0]
    /\ orders = <<>>
    /\ coupon \in CouponConfigs
    /\ req = [r \in Requests |-> IdleReq]
    /\ released = <<>>
    /\ variant \in Variants
    /\ calls = 0
    /\ faults = 0

\* ---------------------------------------------------------------- createOrder
\* a store write throws (network error, validation error): the handler's catch
\* block answers 500 and nothing the handler already wrote is undone
WritePcs ==
    {"create", "stock", "redeem", "user", "restore", "save", "reduce",
     "saveOrder", "saveCoupon", "update"}

StoreWriteFails(r) ==
    /\ req[r].pc \in WritePcs
    /\ faults < MaxFaults
    /\ faults' = faults + 1
    /\ req' = [req EXCEPT ![r] = Respond(r, 500, "error")]
    /\ UNCHANGED <<stock, soldCount, orders, coupon, released, variant, calls>>

CreatesInFlight ==
    Cardinality({r \in Requests : req[r].op = "createOrder" /\ Running(r)
                                  /\ req[r].order = 0})

\* POST /api/orders: protect, validateOrder (items non-empty, quantity >= 1)
CreateOrderStart(r, u, items, couponCode, paymentMethod) ==
    /\ CanStart(r)
    /\ Len(orders) + CreatesInFlight < MaxOrders
    /\ calls' = calls + 1
    /\ req' = [req EXCEPT ![r] =
         [op |-> "createOrder", pc |-> "line", code |-> 0, msg |-> "", order |-> 0,
          a |-> [user |-> u, items |-> items, couponCode |-> couponCode,
                 paymentMethod |-> paymentMethod,
                 shippingMethod |-> "standard"],
          l |-> [i |-> 1, orderItems |-> <<>>, subtotal |-> 0, totalTax |-> 0,
                 discount |-> 0, couponData |-> None, couponDoc |-> None,
                 j |-> 1, now |-> calls + 1, pre |-> Snapshot]]]
    /\ UNCHANGED <<stock, soldCount, orders, coupon, released, variant, faults>>

\* the price of an order line: product.price of the product read for the
\* line; item.price of the request body is never read
LinePrice_FromRequest(item, p) ==
    IF "price" \in DOMAIN item THEN item.price ELSE productPrice[p]

LinePrice(item, p) == productPrice[p]

\* one turn of `for (const item of items)`: Product.findById and the checks
CreateOrderLine(r) ==
    /\ req[r].op = "createOrder" /\ req[r].pc = "line"
    /\ LET q == req[r]
           item == q.a.items[q.l.i]
           p == item.product
       IN req' = [req EXCEPT ![r] =
            IF p \notin Products THEN Respond(r, 404, "Product not found")
            ELSE IF productStatus[p] # "active"
                 THEN Respond(r, 400, "Product is not available")
            ELSE IF stock[p] < item.quantity
                 THEN Respond(r, 400, "Insufficient stock")
            ELSE LET itemSubtotal == LinePrice(item, p) * item.quantity
                     gst == IF productGst[p] = NoNumber THEN 0 ELSE productGst[p]
                     itemTax == (itemSubtotal * gst) \div 100
                     last == q.l.i = Len(q.a.items)
                 IN [q EXCEPT
                       !.l.orderItems = Append(@, [product |-> p,
                                                   price |-> LinePrice(item, p),
                                                   quantity |-> item.quantity,
                                                   subtotal |-> itemSubtotal]),
                       !.l.subtotal = @ + itemSubtotal,
                       !.l.totalTax = @ + itemTax,
                       !.l.i = @ + 1,
                       !.pc = IF ~last THEN "line"
                              ELSE IF q.a.couponCode # Null THEN "coupon"
                              ELSE "create"]]
    /\ UNCHANGED <<stock, soldCount, orders, coupon, released, variant, calls, faults>>

\* Coupon.findOne({ code: couponCode.toUpperCase() })
CreateOrderCoupon(r) ==
    /\ req[r].op = "createOrder" /\ req[r].pc = "coupon"
    /\ req' = [req EXCEPT ![r] =
         IF ToUpperCase(req[r].a.couponCode) # CouponCode
         THEN Respond(r, 400, "Invalid coupon code")
         ELSE [req[r] EXCEPT !.l.couponDoc = Some(coupon), !.pc = "count"]]
    /\ UNCHANGED <<stock, soldCount, orders, coupon, released, variant, calls, faults>>

\* Order.countDocuments({ user }), isValidForUser and calculateDiscount on the
\* coupon document read before
CreateOrderCount(r) ==
    /\ req[r].op = "createOrder" /\ req[r].pc = "count"
    /\ LET q == req[r]
           c == q.l.couponDoc[1]
           userOrderCount ==
               Cardinality({o \in 1..Len(orders) : orders[o].user = q.a.user})
       IN req' = [req EXCEPT ![r] =
            IF ~isValidForUser(c, q.a.user, q.l.subtotal, userOrderCount, q.l.now)
            THEN Respond(r, 400, "Coupon is not valid for this order")
            ELSE LET discount == calculateDiscount(c, q.l.subtotal)
                 IN [q EXCEPT !.l.discount = discount,
                              !.l.couponData = Some([code |-> CouponCode,
                                                     discount |-> discount,
                                                     type |-> c.type]),
                              !.pc = "create"]]
    /\ UNCHANGED <<stock, soldCount, orders, coupon, released, variant, calls, faults>>

\* const total = subtotal - discount + shipping + tax
OrderTotal_Wrong(subtotal, discount, shipping, tax) == subtotal - discount - shipping + tax

OrderTotal(subtotal, discount, shipping, tax) == subtotal - discount + shipping + tax

\* the pricing block of the order: the fixed shipping of 59 and the summed
\* per-item GST (v5); the weight/distance shipping and 8% of the discounted
\* amount (v4, where item.product is an id, so every unit weighs the default 1)
Pricing(v, orderItems, subtotal, totalTax, discount, shippingMethod) ==
    LET totalWeight == SumSeq([k \in 1..Len(orderItems) |-> 1 * orderItems[k].quantity])
        shipping == IF v = "v5" THEN 59 * 100
                    ELSE calculateShippingCost(totalWeight, 100, shippingMethod)
        tax == IF v = "v5" THEN totalTax ELSE calculateTax(subtotal - discount)
    IN [subtotal |-> subtotal, tax |-> tax, shipping |-> shipping,
        discount |-> discount,
        total |-> OrderTotal(subtotal, discount, shipping, tax)]

\* Order.create({...}): status and statusHistory take the schema defaults
CreateOrderPersist(r) ==
    /\ req[r].op = "createOrder" /\ req[r].pc = "create"
    /\ LET q == req[r]
           order ==
             [user |-> q.a.user,
              items |-> q.l.orderItems,
              pricing |-> Pricing(variant, q.l.orderItems, q.l.subtotal,
                                  q.l.totalTax, q.l.discount, q.a.shippingMethod),
              coupon |-> q.l.couponData,
              payment |-> [method |-> q.a.paymentMethod,
                           status |-> IF q.a.paymentMethod = "cod" THEN "pending"
                                      ELSE "processing",
                           paidAt |-> NoNumber],
              shipping |-> [shippedAt |-> NoNumber, deliveredAt |-> NoNumber],
              status |-> "pending",
              statusHistory |-> <<>>,
              cancellation |-> None]
       IN /\ orders' = Append(orders, order)
          /\ released' = Append(released, 0)
          /\ req' = [req EXCEPT ![r] = [q EXCEPT !.order = Len(orders) + 1,
                                                 !.pc = "stock"]]
    /\ UNCHANGED <<stock, soldCount, coupon, variant, calls, faults>>

\* one turn of `for (const item of orderItems)`: $inc stock and soldCount
CreateOrderStock(r) ==
    /\ req[r].op = "createOrder" /\ req[r].pc = "stock"
    /\ LET q == req[r]
           item == q.l.orderItems[q.l.j]
           last == q.l.j = Len(q.l.orderItems)
       IN /\ stock' = [stock EXCEPT ![item.product] = @ - item.quantity]
          /\ soldCount' = [soldCount EXCEPT ![item.product] = @ + item.quantity]
          /\ req' = [req EXCEPT ![r] =
               [q EXCEPT !.l.j = @ + 1,
                         !.pc = IF ~last THEN "stock"
                                ELSE IF q.l.couponData # None THEN "redeem"
                                ELSE "user"]]
    /\ UNCHANGED <<orders, coupon, released, variant, calls, faults>>

\* Coupon.findOneAndUpdate({code}, {$inc: {usedCount: 1}, $push: {usageHistory}})
CreateOrderRedeem(r) ==
    /\ req[r].op = "createOrder" /\ req[r].pc = "redeem"
    /\ LET q == req[r]
       IN /\ coupon' = [coupon EXCEPT
                          !.usedCount = @ + 1,
                          !.usageHistory = Append(@, [user |-> q.a.user,
                                                      order |-> q.order,
                                                      discountAmount |-> q.l.discount])]
          /\ req' = [req EXCEPT ![r].pc = "user"]
    /\ UNCHANGED <<stock, soldCount, orders, released, variant, calls, faults>>

\* the two User.findByIdAndUpdate calls (cart, orders), the e-mail whose
\* failure is caught, and the 201 answer
CreateOrderUser(r) ==
    /\ req[r].op = "createOrder" /\ req[r].pc = "user"
    /\ req' = [req EXCEPT ![r] = Respond(r, 201, "Order created successfully")]
    /\ UNCHANGED <<stock, soldCount, orders, coupon, released, variant, calls, faults>>

CreateOrderStep(r) ==
    \/ CreateOrderLine(r)
    \/ CreateOrderCoupon(r)
    \/ CreateOrderCount(r)
    \/ CreateOrderPersist(r)
    \/ CreateOrderStock(r)
    \/ CreateOrderRedeem(r)
    \/ CreateOrderUser(r)

\* ---------------------------------------------------------------- Order document
\* orderSchema.methods.addStatusHistory, on the document a handler holds
addStatusHistory_StatusOnly(doc, status, updatedBy, now) == [doc EXCEPT !.status = status]

addStatusHistory(doc, status, updatedBy, now) ==
    [doc EXCEPT !.statusHistory = Append(@, [status |-> status,
                                             updatedBy |-> updatedBy,
                                             timestamp |-> now]),
                !.status = status]

\* order.save(): the paths the handler changed are $set, the history entries
\* it pushed are $push-ed onto the stored array; the other paths of the stored
\* document stay as they are
Changed(orig, doc, stored) == IF doc # orig THEN doc ELSE stored

SaveOrder(stored, orig, doc) ==
    [stored EXCEPT
       !.status = Changed(orig.status, doc.status, @),
       !.statusHistory = @ \o SubSeq(doc.statusHistory, Len(orig.statusHistory) + 1,
                                     Len(doc.statusHistory)),
       !.payment.status = Changed(orig.payment.status, doc.payment.status, @),
       !.payment.paidAt = Changed(orig.payment.paidAt, doc.payment.paidAt, @),
       !.shipping = Changed(orig.shipping, doc.shipping, @),
       !.cancellation = Changed(orig.cancellation, doc.cancellation, @),
       !.coupon = Changed(orig.coupon, doc.coupon, @)]

OrderIds == 1..MaxOrders

\* a request that names an order: Order.findById(id) is its first store access
OrderReq(op, id, actor, args, doc, pc, now) ==
    [op |-> op, pc |-> pc, code |-> 0, msg |-> "", order |-> id,
     a |-> [user |-> actor] @@ args,
     l |-> [orig |-> orders[id], doc |-> doc, j |-> 1, now |-> now]]

Refused(op, id, code, msg) ==
    [op |-> op, pc |-> "done", code |-> code, msg |-> msg, order |-> id,
     a |-> <<>>, l |-> <<>>]

NotFound(op, id) == Refused(op, id, 404, "Order not found")

\* req.user.role
Role_AlwaysAdmin(actor) == "admin"

Role(actor) == IF actor = Admin THEN "admin" ELSE "user"

Cancellation(reason, by, now) ==
    [reason |-> reason, cancelledAt |-> now, cancelledBy |-> by,
     refundStatus |-> "pending"]

\* the $inc document of a cancellation: stock by the quantity and soldCount
\* by its negative
ReleaseInc_StockOnly(item) == [stock |-> item.quantity, soldCount |-> 0]

ReleaseInc(item) == [stock |-> item.quantity, soldCount |-> 0 - item.quantity]

\* one turn of `for (const item of order.items)` of a cancellation:
\* Product.findByIdAndUpdate(item.product, {$inc})
RestoreStock(r) ==
    /\ req[r].pc = "restore"
    /\ LET q == req[r]
           item == q.l.doc.items[q.l.j]
           last == q.l.j = Len(q.l.doc.items)
       IN /\ stock' = [stock EXCEPT ![item.product] = @ + ReleaseInc(item).stock]
          /\ soldCount' = [soldCount EXCEPT ![item.product] = @ + ReleaseInc(item).soldCount]
          /\ released' = IF last THEN [released EXCEPT ![q.order] = @ + 1]
                         ELSE released
          /\ req' = [req EXCEPT ![r] = [q EXCEPT !.l.j = @ + 1,
                                                 !.pc = IF last THEN "save" ELSE "restore"]]
    /\ UNCHANGED <<orders, coupon, variant, calls, faults>>

\* await order.save() and the 200 answer
SaveAndRespond(r) ==
    /\ req[r].pc = "save"
    /\ LET q == req[r]
       IN /\ orders' = [orders EXCEPT ![q.order] = SaveOrder(@, q.l.orig, q.l.doc)]
          /\ req' = [req EXCEPT ![r] = Respond(r, 200, "ok")]
    /\ UNCHANGED <<stock, soldCount, coupon, released, variant, calls, faults>>

\* ---------------------------------------------------------------- cancelOrder
\* the statuses cancelOrder refuses
NotCancellable == {"shipped", "delivered", "cancelled"}

\* PUT /api/orders/:id/cancel (protect): findById, the ownership check, the
\* status check, then the changes to the document held
CancelOrder(r, id, actor, reason) ==
    /\ CanStart(r)
    /\ calls' = calls + 1
    /\ LET args == [reason |-> reason]
           now == calls + 1
       IN req' = [req EXCEPT ![r] =
            IF id > Len(orders) THEN NotFound("cancelOrder", id)
            ELSE IF Role(actor) # "admin" /\ orders[id].user # actor
                 THEN Refused("cancelOrder", id, 403,
                              "Not authorized to cancel this order")
            ELSE IF orders[id].status \in NotCancellable
                 THEN Refused("cancelOrder", id, 400,
                              "Order cannot be cancelled at this stage")
            ELSE OrderReq("cancelOrder", id, actor, args,
                          [addStatusHistory(orders[id], "cancelled", actor, now)
                             EXCEPT !.cancellation = Some(Cancellation(reason, actor, now))],
                          "restore", now)]
    /\ UNCHANGED <<stock, soldCount, orders, coupon, released, variant, faults>>

\* ---------------------------------------------------------------- updateOrderStatus
\* PUT /api/orders/:id/status (protect, restrictTo admin), order controller
UpdateOrderStatus(r, id, status, note) ==
    /\ CanStart(r)
    /\ calls' = calls + 1
    /\ LET args == [status |-> status, note |-> note]
           now == calls + 1
           d0 == addStatusHistory(orders[id], status, Admin, now)
           doc == CASE status = "shipped" -> [d0 EXCEPT !.shipping.shippedAt = now]
                    [] status = "delivered" ->
                         [d0 EXCEPT !.shipping.deliveredAt = now,
                                    !.payment.status = "completed",
                                    !.payment.paidAt = now]
                    [] status = "cancelled" ->
                         [d0 EXCEPT !.cancellation = Some(Cancellation(note, Admin, now))]
                    [] OTHER -> d0
       IN req' = [req EXCEPT ![r] =
            IF id > Len(orders) THEN NotFound("updateOrderStatus", id)
            ELSE OrderReq("updateOrderStatus", id, Admin, args, doc,
                          IF status = "cancelled" THEN "restore" ELSE "save", now)]
    /\ UNCHANGED <<stock, soldCount, orders, coupon, released, variant, faults>>

\* exports.updateOrderStatus of the admin controller: on delivered the stock
\* of every line is reduced again and a cod payment is completed
AdminUpdateOrderStatus(r, id, status) ==
    /\ CanStart(r)
    /\ calls' = calls + 1
    /\ LET args == [status |-> status]
           now == calls + 1
           o == orders[id]
           d0 == IF status = "delivered" /\ o.payment.method = "cod"
                    /\ o.payment.status # "completed"
                 THEN [o EXCEPT !.payment.status = "completed", !.payment.paidAt = now]
                 ELSE o
           doc == [d0 EXCEPT !.statusHistory = Append(@, [status |-> status,
                                                          updatedBy |-> Undefined,
                                                          timestamp |-> now]),
                             !.status = status]
       IN req' = [req EXCEPT ![r] =
            IF id > Len(orders) THEN NotFound("adminUpdateOrderStatus", id)
            ELSE OrderReq("adminUpdateOrderStatus", id, Admin, args, doc,
                          IF status = "delivered" THEN "reduce" ELSE "save", now)]
    /\ UNCHANGED <<stock, soldCount, orders, coupon, released, variant, faults>>

\* one turn of the admin controller's `// Reduce stock` loop
AdminReduceStock(r) ==
    /\ req[r].pc = "reduce"
    /\ LET q == req[r]
           item == q.l.doc.items[q.l.j]
           last == q.l.j = Len(q.l.doc.items)
       IN /\ stock' = [stock EXCEPT ![item.product] = @ - item.quantity]
          /\ req' = [req EXCEPT ![r] = [q EXCEPT !.l.j = @ + 1,
                                                 !.pc = IF last THEN "save" ELSE "reduce"]]
    /\ UNCHANGED <<soldCount, orders, coupon, released, variant, calls, faults>>

\* ---------------------------------------------------------------- payment
\* PUT /api/orders/:id/payment (protect, restrictTo admin)
UpdatePaymentStatus(r, id, status) ==
    /\ CanStart(r)
    /\ calls' = calls + 1
    /\ LET args == [status |-> status]
           now == calls + 1
           o == orders[id]
           d0 == [o EXCEPT !.payment.status = status]
           doc == IF status = "completed"
                  THEN LET d1 == [d0 EXCEPT !.payment.paidAt = now]
                       IN IF o.status = "pending"
                          THEN addStatusHistory(d1, "confirmed", Admin, now)
                          ELSE d1
                  ELSE IF status = "failed"
                  THEN addStatusHistory(d0, "cancelled", Admin, now)
                  ELSE d0
       IN req' = [req EXCEPT ![r] =
            IF id > Len(orders) THEN NotFound("updatePaymentStatus", id)
            ELSE OrderReq("updatePaymentStatus", id, Admin, args, doc, "save", now)]
    /\ UNCHANGED <<stock, soldCount, orders, coupon, released, variant, faults>>

\* POST /api/payment/failure (protect)
HandlePaymentFailure(r, id, actor) ==
    /\ CanStart(r)
    /\ calls' = calls + 1
    /\ LET args == <<>>
           now == calls + 1
           doc == addStatusHistory([orders[id] EXCEPT !.payment.status = "failed"],
                                   "cancelled", actor, now)
       IN req' = [req EXCEPT ![r] =
            IF id > Len(orders) THEN NotFound("handlePaymentFailure", id)
            ELSE OrderReq("handlePaymentFailure", id, actor, args, doc, "save", now)]
    /\ UNCHANGED <<stock, soldCount, orders, coupon, released, variant, faults>>

\* the payment ids Razorpay issues, and the HMAC of order id and payment id
\* under the key secret, which only Razorpay and the server can compute
PaymentIds == {"pay_1", "pay_2"}
Signatures == {"hmac_pay_1", "hmac_pay_2"}
ExpectedSignature(paymentId) == IF paymentId = "pay_1" THEN "hmac_pay_1" ELSE "hmac_pay_2"

\* verifyRazorpayPayment, on the document it holds: the payment is completed
\* and a pending order is confirmed; payment.razorpayPaymentId and
\* payment.razorpaySignature are no paths of the Order schema and are not stored
VerifiedPayment_AlwaysConfirmed(o, paymentId, actor, now) ==
    addStatusHistory([o EXCEPT !.payment.status = "completed",
                               !.payment.paidAt = now],
                     "confirmed", actor, now)

VerifiedPayment(o, paymentId, actor, now) ==
    LET d == [o EXCEPT !.payment.status = "completed",
                       !.payment.paidAt = now]
    IN IF o.status = "pending" THEN addStatusHistory(d, "confirmed", actor, now) ELSE d

\* POST /api/payment/verify (protect): the signature check, findById, the
\* changes to the document held
VerifyRazorpayPayment(r, id, actor, paymentId, signature) ==
    /\ CanStart(r)
    /\ calls' = calls + 1
    /\ LET args == [paymentId |-> paymentId]
           now == calls + 1
       IN req' = [req EXCEPT ![r] =
            IF ExpectedSignature(paymentId) # signature
            THEN Refused("verifyRazorpayPayment", id, 400, "Invalid payment signature")
            ELSE IF id > Len(orders) THEN NotFound("verifyRazorpayPayment", id)
            ELSE OrderReq("verifyRazorpayPayment", id, actor, args,
                          VerifiedPayment(orders[id], paymentId, actor, now),
                          "save", now)]
    /\ UNCHANGED <<stock, soldCount, orders, coupon, released, variant, faults>>

\* POST /api/payment/cod (protect): findById, the ownership check, then
\* payment.status pending and addStatusHistory('confirmed');
\* order.paymentMethod is no path of the Order schema and is not stored
ProcessCODOrder(r, id, actor) ==
    /\ CanStart(r)
    /\ calls' = calls + 1
    /\ LET args == <<>>
           now == calls + 1
       IN req' = [req EXCEPT ![r] =
            IF id > Len(orders) THEN NotFound("processCODOrder", id)
            ELSE IF orders[id].user # actor
                 THEN Refused("processCODOrder", id, 403,
                              "Not authorized to access this order")
            ELSE OrderReq("processCODOrder", id, actor, args,
                          addStatusHistory([orders[id] EXCEPT !.payment.status = "pending"],
                                           "confirmed", actor, now),
                          "save", now)]
    /\ UNCHANGED <<stock, soldCount, orders, coupon, released, variant, faults>>

\* exports.updateOrderTracking of the admin controller: order.shipping is
\* replaced by {trackingNumber, carrier, estimatedDelivery}, which leaves
\* shippedAt and deliveredAt unset; a processing order becomes shipped
UpdateOrderTracking(r, id) ==
    /\ CanStart(r)
    /\ calls' = calls + 1
    /\ LET args == <<>>
           now == calls + 1
           o == orders[id]
           d0 == [o EXCEPT !.shipping = [shippedAt |-> NoNumber, deliveredAt |-> NoNumber]]
           doc == IF o.status = "processing"
                  THEN [d0 EXCEPT !.status = "shipped",
                                  !.statusHistory = Append(@, [status |-> "shipped",
                                                               updatedBy |-> Undefined,
                                                               timestamp |-> now])]
                  ELSE d0
       IN req' = [req EXCEPT ![r] =
            IF id > Len(orders) THEN NotFound("updateOrderTracking", id)
            ELSE OrderReq("updateOrderTracking", id, Admin, args, doc, "save", now)]
    /\ UNCHANGED <<stock, soldCount, orders, coupon, released, variant, faults>>

\* ---------------------------------------------------------------- coupon controller
\* applyCoupon: Promise.all of Order.findOne({_id, user}) and
\* Coupon.findOne({code, isActive: true})
ApplyCoupon(r, code, id, actor) ==
    /\ CanStart(r)
    /\ calls' = calls + 1
    /\ LET args == [code |-> code]
           now == calls + 1
       IN req' = [req EXCEPT ![r] =
            IF id > Len(orders) \/ orders[id].user # actor
            THEN NotFound("applyCoupon", id)
            ELSE IF ToUpperCase(code) # CouponCode \/ ~coupon.isActive
                 THEN Refused("applyCoupon", id, 404, "Invalid coupon code")
            ELSE [OrderReq("applyCoupon", id, actor, args, orders[id], "count", now)
                    EXCEPT !.l = @ @@ [couponDoc |-> coupon]]]
    /\ UNCHANGED <<stock, soldCount, orders, coupon, released, variant, faults>>

\* getUserOrderCount (orders of the user with status 'completed'), then
\* isValidForUser and calculateDiscount on order.subtotal, a path the Order
\* schema does not have
ApplyCouponCount(r) ==
    /\ req[r].op = "applyCoupon" /\ req[r].pc = "count"
    /\ LET q == req[r]
           c == q.l.couponDoc
           userOrderCount ==
               Cardinality({o \in 1..Len(orders) :
                              orders[o].user = q.a.user /\ orders[o].status = "completed"})
           discountAmount == calculateDiscount(c, NoNumber)
       IN req' = [req EXCEPT ![r] =
            IF ~isValidForUser(c, q.a.user, NoNumber, userOrderCount, q.l.now)
            THEN Respond(r, 400, "Coupon is not valid for this order")
            ELSE [q EXCEPT !.l.doc.coupon = Some([code |-> CouponCode,
                                                  discount |-> NoNumber,
                                                  type |-> Undefined]),
                           !.l = @ @@ [discountAmount |-> discountAmount],
                           !.pc = "saveOrder"]]
    /\ UNCHANGED <<stock, soldCount, orders, coupon, released, variant, calls, faults>>

\* await order.save(): order.coupon is written; order.totalAmount is no path
\* of the schema and is not stored
ApplyCouponSaveOrder(r) ==
    /\ req[r].op = "applyCoupon" /\ req[r].pc = "saveOrder"
    /\ LET q == req[r]
       IN /\ orders' = [orders EXCEPT ![q.order] = SaveOrder(@, q.l.orig, q.l.doc)]
          /\ req' = [req EXCEPT ![r].pc = "saveCoupon"]
    /\ UNCHANGED <<stock, soldCount, coupon, released, variant, calls, faults>>

\* coupon.usageHistory.push(...); coupon.usedCount += 1; await coupon.save():
\* the entry is $push-ed, usedCount is $set to the value the handler computed.
\* usageHistory.discountAmount is a Number path: NaN does not cast, the save
\* is rejected by validation before anything is written and the catch block
\* answers 500
ApplyCouponSaveCoupon(r) ==
    /\ req[r].op = "applyCoupon" /\ req[r].pc = "saveCoupon"
    /\ LET q == req[r]
       IN IF q.l.discountAmount = NaN
          THEN /\ coupon' = coupon
               /\ req' = [req EXCEPT ![r] = Respond(r, 500, "Internal server error")]
          ELSE /\ coupon' = [coupon EXCEPT
                               !.usageHistory = Append(@, [user |-> q.a.user,
                                                           order |-> q.order,
                                                           discountAmount |-> q.l.discountAmount]),
                               !.usedCount = q.l.couponDoc.usedCount + 1]
               /\ req' = [req EXCEPT ![r] = Respond(r, 200, "Coupon applied successfully")]
    /\ UNCHANGED <<stock, soldCount, orders, released, variant, calls, faults>>

\* the request bodies an admin sends to PUT /api/coupons/:id
CouponBodies ==
    { [usedCount |-> 0], [usageLimit |-> 2], [isActive |-> FALSE] }

\* updateCoupon: Coupon.findById, then (the body names no code)
\* Coupon.findByIdAndUpdate(id, req.body, {runValidators: true})
UpdateCoupon(r, body) ==
    /\ CanStart(r)
    /\ calls' = calls + 1
    /\ req' = [req EXCEPT ![r] =
         [op |-> "updateCoupon", pc |-> "update", code |-> 0, msg |-> "", order |-> 0,
          a |-> [body |-> body], l |-> <<>>]]
    /\ UNCHANGED <<stock, soldCount, orders, coupon, released, variant, faults>>

UpdateCouponWrite(r) ==
    /\ req[r].op = "updateCoupon" /\ req[r].pc = "update"
    /\ coupon' = req[r].a.body @@ coupon
    /\ req' = [req EXCEPT ![r] = Respond(r, 200, "Coupon updated successfully")]
    /\ UNCHANGED <<stock, soldCount, orders, released, variant, calls, faults>>

\* ---------------------------------------------------------------- behaviours
\* a checkout request arrives at slot r
ArriveCreate(r) ==
    \E u \in Customers, items \in Carts, cc \in CouponInputs, m \in PaymentMethods :
        CreateOrderStart(r, u, items, cc, m)

\* a request of the order controller's cancel and status routes arrives
ArriveTransition(r) ==
    \/ \E id \in OrderIds, actor \in Actors : CancelOrder(r, id, actor, "customer request")
    \/ \E id \in OrderIds, status \in OrderStatuses :
          UpdateOrderStatus(r, id, status, "by admin")

\* a request of the admin, payment or coupon controller arrives
ArriveOther(r) ==
    \/ \E id \in OrderIds, status \in OrderStatuses : AdminUpdateOrderStatus(r, id, status)
    \/ \E id \in OrderIds, status \in PaymentStatuses : UpdatePaymentStatus(r, id, status)
    \/ \E id \in OrderIds, actor \in Users : HandlePaymentFailure(r, id, actor)
    \/ \E id \in OrderIds, actor \in Users : ApplyCoupon(r, "save10", id, actor)
    \/ \E body \in CouponBodies : UpdateCoupon(r, body)

Arrive(r) == ArriveCreate(r) \/ ArriveTransition(r) \/ ArriveOther(r)

\* a request in flight takes its next step
Step(r) ==
    \/ CreateOrderStep(r)
    \/ RestoreStock(r)
    \/ AdminReduceStock(r)
    \/ SaveAndRespond(r)
    \/ ApplyCouponCount(r)
    \/ ApplyCouponSaveOrder(r)
    \/ ApplyCouponSaveCoupon(r)
    \/ UpdateCouponWrite(r)

\* requests arrive at any time, their steps interleave, store writes may throw
Next == \E r \in Requests : Arrive(r) \/ Step(r) \/ StoreWriteFails(r)

Spec == Init /\ [][Next]_vars

\* one request at a time and a store that does not fail: a request arrives
\* only when none is in flight
NextSeq == \E r \in Requests : (Quiet /\ r = 1 /\ Arrive(r)) \/ Step(r)

SpecSeq == Init /\ [][NextSeq]_vars

\* one request at a time, of the order controller, with store writes that throw
NextFault ==
    \E r \in Requests :
        \/ Quiet /\ r = 1 /\ (ArriveCreate(r) \/ ArriveTransition(r))
        \/ CreateOrderStep(r)
        \/ RestoreStock(r)
        \/ SaveAndRespond(r)
        \/ StoreWriteFails(r)

SpecFault == Init /\ [][NextFault]_vars

\* checkout requests only, each slot used once, their steps interleaved
NextRace ==
    \E r \in Requests :
        \/ req[r].pc = "idle" /\ ArriveCreate(r)
        \/ CreateOrderStep(r)

SpecRace == Init /\ [][NextRace]_vars

\* a cancelOrder, or an updateOrderStatus to delivered, arrives for an order
ArriveCancelOrDeliver(r) ==
    \/ \E id \in OrderIds, actor \in Actors : CancelOrder(r, id, actor, "customer request")
    \/ \E id \in OrderIds : UpdateOrderStatus(r, id, "delivered", "by admin")

\* a checkout handled alone, then cancel and deliver requests for the order it
\* created, arriving at any time, their steps interleaved
NextTrans ==
    \E r \in Requests :
        \/ Quiet /\ Len(orders) = 0 /\ r = 1 /\ ArriveCreate(r)
        \/ CreateOrderStep(r)
        \/ /\ Len(orders) > 0
           /\ \A s \in Requests : req[s].op = "createOrder" => ~Running(s)
           /\ ArriveCancelOrDeliver(r)
        \/ RestoreStock(r)
        \/ SaveAndRespond(r)

SpecTrans == Init /\ [][NextTrans]_vars

\* a request of the payment routes, or the admin's payment update, arrives
ArrivePayment(r) ==
    \/ \E id \in OrderIds, actor \in Users, pid \in PaymentIds, sig \in Signatures :
          VerifyRazorpayPayment(r, id, actor, pid, sig)
    \/ \E id \in OrderIds, status \in PaymentStatuses : UpdatePaymentStatus(r, id, status)
    \/ \E id \in OrderIds, actor \in Users : HandlePaymentFailure(r, id, actor)

\* one request at a time: checkout, the order controller's transitions and
\* the payment handlers
NextPay ==
    \E r \in Requests :
        \/ Quiet /\ r = 1 /\ (ArriveCreate(r) \/ ArriveTransition(r) \/ ArrivePayment(r))
        \/ CreateOrderStep(r)
        \/ RestoreStock(r)
        \/ SaveAndRespond(r)

SpecPay == Init /\ [][NextPay]_vars

\* ---------------------------------------------------------------- validateCoupon
\* Product.find({_id: {$in: cartItems.map(item => item.productId)}}): the
\* products of the cart that exist
CartProducts(cartItems) ==
    {cartItems[i].product : i \in 1..Len(cartItems)} \cap Products

\* the loop that sets hasApplicableProducts: some product of the cart is in
\* applicableProducts, or its category is in applicableCategories
HasApplicableProducts(c, products) ==
    \E p \in products :
        \/ c.applicableProducts # {} /\ p \in c.applicableProducts
        \/ c.applicableCategories # {} /\ productCategory[p] \in c.applicableCategories

\* the loop over the excluded lists: some product of the cart is in
\* excludedProducts, or its category is in excludedCategories
HasExcludedProducts(c, products) ==
    \E p \in products :
        \/ p \in c.excludedProducts
        \/ productCategory[p] \in c.excludedCategories

\* the validationErrors validateCoupon collects for a coupon it found, in the
\* order of the checks; a usageLimit of null or 0 is no limit there
ValidationErrors(c, userId, orderAmount, cartItems, userOrderCount, now) ==
    LET userUsageCount ==
            Cardinality({i \in 1..Len(c.usageHistory) : c.usageHistory[i].user = userId})
        products == CartProducts(cartItems)
        Check(failed, message) == IF failed THEN <<message>> ELSE <<>>
    IN Check(c.validFrom > now, "Coupon is not yet active")
       \o Check(c.validUntil < now, "Coupon has expired")
       \o Check(c.usageLimit # NoNumber /\ c.usageLimit # 0 /\ c.usedCount >= c.usageLimit,
                "Coupon usage limit reached")
       \o Check(orderAmount < c.minimumOrderAmount, "Minimum order amount required")
       \o Check(c.firstTimeUserOnly /\ userOrderCount > 0,
                "This coupon is only valid for first-time customers")
       \o Check(userUsageCount >= c.usageLimitPerUser,
                "You have reached the usage limit for this coupon")
       \o Check(c.applicableUsers # {} /\ userId \notin c.applicableUsers,
                "This coupon is not applicable to your account")
       \o Check((c.applicableProducts # {} \/ c.applicableCategories # {})
                   /\ ~HasApplicableProducts(c, products),
                "This coupon is not applicable to any items in your cart")
       \o Check((c.excludedProducts # {} \/ c.excludedCategories # {})
                   /\ HasExcludedProducts(c, products),
                "This coupon cannot be applied to a product in your cart")

\* the order amounts a client sends to POST /api/coupons/validate, in paise
ValidateAmounts == {0, 4000, 10000}

\* what validateCoupon answers: the 400 for a missing field, Coupon.findOne(
\* {code, isActive: true}), Order.countDocuments({user, status: 'completed'}),
\* the checks and calculateDiscount
ValidateResponse(code, orderAmount, cartItems, actor, now) ==
    LET userOrderCount ==
            Cardinality({o \in 1..Len(orders) :
                           orders[o].user = actor /\ orders[o].status = "completed"})
        errors == ValidationErrors(coupon, actor, orderAmount, cartItems,
                                   userOrderCount, now)
    IN IF code = Null \/ orderAmount = 0 \/ Len(cartItems) = 0
       THEN Refused("validateCoupon", 0, 400, "Missing required fields")
       ELSE IF ToUpperCase(code) # CouponCode \/ ~coupon.isActive
            THEN Refused("validateCoupon", 0, 404, "Invalid coupon code")
       ELSE IF errors # <<>>
            THEN Refused("validateCoupon", 0, 400, errors[1])
       ELSE [Refused("validateCoupon", 0, 200, "Coupon is valid")
               EXCEPT !.l = [discountAmount |-> calculateDiscount(coupon, orderAmount)]]

\* POST /api/coupons/validate (protect); the handler writes nothing
ValidateCoupon(r, code, orderAmount, cartItems, actor) ==
    /\ CanStart(r)
    /\ calls' = calls + 1
    /\ req' = [req EXCEPT ![r] =
                 ValidateResponse(code, orderAmount, cartItems, actor, calls + 1)]
    /\ UNCHANGED <<stock, soldCount, orders, coupon, released, variant, faults>>

\* validateCoupon of the other revision of the coupon controller: code and
\* orderAmount only, Coupon.findOne({code}), Order.countDocuments({user}),
\* isValidForUser and calculateDiscount
ValidateCouponByMethod(r, code, orderAmount, actor) ==
    /\ CanStart(r)
    /\ calls' = calls + 1
    /\ LET userOrderCount ==
               Cardinality({o \in 1..Len(orders) : orders[o].user = actor})
       IN req' = [req EXCEPT ![r] =
            IF code = Null \/ orderAmount = 0
            THEN Refused("validateCouponByMethod", 0, 400,
                         "Coupon code and order amount are required")
            ELSE IF ToUpperCase(code) # CouponCode
                 THEN Refused("validateCouponByMethod", 0, 404, "Invalid coupon code")
            ELSE IF ~isValidForUser(coupon, actor, orderAmount, userOrderCount, calls + 1)
                 THEN Refused("validateCouponByMethod", 0, 400,
                              "Coupon is not valid for this order")
            ELSE [Refused("validateCouponByMethod", 0, 200, "Coupon is valid")
                    EXCEPT !.l = [discountAmount |-> calculateDiscount(coupon, orderAmount)]]]
    /\ UNCHANGED <<stock, soldCount, orders, coupon, released, variant, faults>>

\* ---------------------------------------------------------------- calculateDiscount
\* the coupons createCoupon accepts, as far as calculateDiscount reads them:
\* type is one of the enum, value is >= 0 (schema min), maximumDiscountAmount
\* is any number or absent (the schema puts no bound on it)
DiscountValues == {0, 10, 100, 150, 5000, 50000}
DiscountCaps == {NoNumber, 0, 1500, 0 - 1500}
DiscountCoupons ==
    { [isActive |-> TRUE, validFrom |-> 0, validUntil |-> 1000,
       type |-> ty, value |-> v,
       minimumOrderAmount |-> 0, maximumDiscountAmount |-> cap,
       usageLimit |-> NoNumber, usageLimitPerUser |-> 1,
       applicableUsers |-> {}, firstTimeUserOnly |-> FALSE,
       applicableProducts |-> {}, applicableCategories |-> {},
       excludedProducts |-> {}, excludedCategories |-> {},
       usedCount |-> 0, usageHistory |-> <<>>] :
      ty \in {"percentage", "fixed"}, v \in DiscountValues, cap \in DiscountCaps }

\* order amounts in paise, whole rupees
OrderAmounts == {0, 10000, 40000}

InitDiscount ==
    /\ stock = [p \in Products |-> MaxStock]
    /\ soldCount = [p \in Products |-> 0]
    /\ orders = <<>>
    /\ coupon \in DiscountCoupons
    /\ req = [r \in Requests |-> IdleReq]
    /\ released = <<>>
    /\ variant \in Variants
    /\ calls = 0
    /\ faults = 0

\* coupon.calculateDiscount(orderAmount) is called; slot r keeps the argument
\* and the value returned
CalculateDiscount(r, orderAmount) ==
    /\ CanStart(r)
    /\ calls' = calls + 1
    /\ req' = [req EXCEPT ![r] =
         [op |-> "calculateDiscount", pc |-> "done", code |-> 0, msg |-> "", order |-> 0,
          a |-> [orderAmount |-> orderAmount],
          l |-> [discount |-> calculateDiscount(coupon, orderAmount)]]]
    /\ UNCHANGED <<stock, soldCount, orders, coupon, released, variant, faults>>

NextDiscount == \E r \in Requests, orderAmount \in OrderAmounts : CalculateDiscount(r, orderAmount)

SpecDiscount == InitDiscount /\ [][NextDiscount]_vars

\* a coupon validation request arrives
ArriveValidate(r) ==
    \E code \in CouponInputs, orderAmount \in ValidateAmounts, cartItems \in Carts,
       actor \in Users :
        ValidateCoupon(r, code, orderAmount, cartItems, actor)

\* one request at a time: checkout, the order controller's transitions and
\* coupon validation
NextCoupon ==
    \E r \in Requests :
        \/ Quiet /\ r = 1 /\ (ArriveCreate(r) \/ ArriveTransition(r) \/ ArriveValidate(r))
        \/ CreateOrderStep(r)
        \/ RestoreStock(r)
        \/ SaveAndRespond(r)

SpecCoupon == Init /\ [][NextCoupon]_vars

\* a coupon an admin has created with product and category lists
ScopedCoupon(ap, ac, ep, ec) ==
    [isActive |-> TRUE, validFrom |-> 0, validUntil |-> 1000,
     type |-> "percentage", value |-> 10,
     minimumOrderAmount |-> 0, maximumDiscountAmount |-> NoNumber,
     usageLimit |-> NoNumber, usageLimitPerUser |-> 3,
     applicableUsers |-> {}, firstTimeUserOnly |-> FALSE,
     applicableProducts |-> ap, applicableCategories |-> ac,
     excludedProducts |-> ep, excludedCategories |-> ec,
     usedCount |-> 0, usageHistory |-> <<>>]

ScopedCoupons ==
    { ScopedCoupon({"p2"}, {}, {}, {}),
      ScopedCoupon({}, {"c2"}, {}, {}),
      ScopedCoupon({"p1"}, {}, {}, {}),
      ScopedCoupon({}, {}, {"p1"}, {}),
      ScopedCoupon({}, {}, {}, {"c1"}),
      ScopedCoupon({"p1"}, {}, {"p1"}, {}),
      ScopedCoupon({}, {}, Products, {}) }

InitScope ==
    /\ stock = [p \in Products |-> MaxStock]
    /\ soldCount = [p \in Products |-> 0]
    /\ orders = <<>>
    /\ coupon \in ScopedCoupons
    /\ req = [r \in Requests |-> IdleReq]
    /\ released = <<>>
    /\ variant \in Variants
    /\ calls = 0
    /\ faults = 0

\* a coupon validation request for the other revision of the controller arrives
ArriveValidateByMethod(r) ==
    \E code \in CouponInputs, orderAmount \in ValidateAmounts, actor \in Users :
        ValidateCouponByMethod(r, code, orderAmount, actor)

\* one request at a time: checkout and coupon validation, for a coupon with
\* product and category lists
NextScope ==
    \E r \in Requests :
        \/ Quiet /\ r = 1
           /\ (ArriveCreate(r) \/ ArriveValidate(r) \/ ArriveValidateByMethod(r))
        \/ CreateOrderStep(r)

SpecScope == InitScope /\ [][NextScope]_vars

\* request bodies whose lines also carry a price, below or above the catalog's
ClientPrices == {100, 20000}
PricedLines == [product : ProductIds, quantity : 1..MaxQty, price : ClientPrices]
PricedCarts == SeqsUpTo(PricedLines, MaxLines) \ {<<>>}

\* a checkout request with priced lines arrives
ArriveCreatePriced(r) ==
    \E u \in Customers, items \in PricedCarts, cc \in CouponInputs, m \in PaymentMethods :
        CreateOrderStart(r, u, items, cc, m)

\* one checkout at a time, its lines carrying client prices
NextPrice ==
    \E r \in Requests :
        \/ Quiet /\ r = 1 /\ ArriveCreatePriced(r)
        \/ CreateOrderStep(r)

SpecPrice == Init /\ [][NextPrice]_vars

\* a request of a handler that can change the status of an order arrives
ArriveStatusChange(r) ==
    \/ ArriveTransition(r)
    \/ ArrivePayment(r)
    \/ \E id \in OrderIds, status \in OrderStatuses : AdminUpdateOrderStatus(r, id, status)
    \/ \E id \in OrderIds, actor \in Users : ProcessCODOrder(r, id, actor)
    \/ \E id \in OrderIds : UpdateOrderTracking(r, id)

\* one request at a time: a checkout without coupon, then the handlers of the
\* order, admin and payment controllers that change an order
NextStatus ==
    \E r \in Requests :
        \/ Quiet /\ r = 1
           /\ \/ \E u \in Customers, items \in Carts, m \in PaymentMethods :
                    CreateOrderStart(r, u, items, Null, m)
              \/ ArriveStatusChange(r)
        \/ CreateOrderLine(r)
        \/ CreateOrderPersist(r)
        \/ CreateOrderStock(r)
        \/ CreateOrderUser(r)
        \/ RestoreStock(r)
        \/ AdminReduceStock(r)
        \/ SaveAndRespond(r)

SpecStatus == Init /\ [][NextStatus]_vars

\* ---------------------------------------------------------------- properties
OpenStatuses == {"pending", "confirmed", "processing"}

\* slot r receives a request for handler op in this step
Arrives(r, op) == calls' = calls + 1 /\ req'[r] # req[r] /\ req'[r].op = op

\* slot r answers in this step
Answers(r) == Running(r) /\ req'[r].pc = "done"

\* the checkout requests that were answered 201
Succeeded == {r \in Requests : req[r].op = "createOrder" /\ req[r].pc = "done"
                               /\ req[r].code = 201}

\* units of product p in the orders of the checkout requests answered 201
UnitsGranted(p) ==
    SumSeq([r \in Requests |->
              IF r \in Succeeded THEN QtyOf(orders[req[r].order].items, p) ELSE 0])

\* C1: every persisted order has pricing.total = subtotal - discount + shipping
\* + tax and total >= 0, whichever controller revision created it and whatever
\* status, payment, cancel and coupon requests came after
C1_PricingReconciles ==
    \A o \in 1..Len(orders) :
        LET p == orders[o].pricing
        IN /\ p.total = p.subtotal - p.discount + p.shipping + p.tax
           /\ p.total >= 0

\* C1, its case: a discounted order that a later request has cancelled
C1_Witness ==
    \E o \in 1..Len(orders) :
        /\ orders[o].pricing.discount > 0
        /\ orders[o].status = "cancelled"
        /\ orders[o].cancellation # None

\* C2: interleaved checkouts of one product never get more units than the
\* stock there was: with stock MaxStock, the single-line orders answered 201
\* hold at most MaxStock units of each product
C2_NoOversell ==
    \A p \in Products :
        (\A r \in Succeeded : Len(orders[req[r].order].items) = 1)
            => UnitsGranted(p) <= MaxStock

\* C3: usedCount never exceeds usageLimit, also when the checkouts that use
\* the coupon interleave
C3_UsageLimitHolds ==
    coupon.usageLimit # NoNumber => coupon.usedCount <= coupon.usageLimit

C5_NeverNegative ==
    \A p \in Products : stock[p] >= 0 /\ soldCount[p] >= 0

\* C6: usedCount equals the number of usageHistory entries in every state
C6_UsedCountIsHistoryLength ==
    coupon.usedCount = Len(coupon.usageHistory)

\* C7: a createOrder that is answered with an error has persisted no order
\* and changed no stock, soldCount, usedCount or usageHistory
C7_AllOrNothing ==
    [][\A r \in Requests :
         (req[r].op = "createOrder" /\ Answers(r) /\ req'[r].code # 201)
         => /\ Len(orders') = req[r].l.pre.orders
            /\ stock' = req[r].l.pre.stock
            /\ soldCount' = req[r].l.pre.soldCount
            /\ coupon'.usedCount = req[r].l.pre.usedCount
            /\ Len(coupon'.usageHistory) = req[r].l.pre.usageHistory]_vars

\* C8: cancelOrder for an order whose status is not pending, confirmed or
\* processing is answered with an error and changes neither the order nor stock
C8_CancelOnlyWhenOpen ==
    [][\A r \in Requests :
         ( /\ Arrives(r, "cancelOrder")
           /\ req'[r].order <= Len(orders)
           /\ orders[req'[r].order].status \notin OpenStatuses )
         => /\ req'[r].pc = "done"
            /\ req'[r].code >= 400
            /\ UNCHANGED <<orders, stock, soldCount>>]_vars

\* C9: updateOrderStatus asked to move a delivered order to cancelled is
\* answered with an error and changes neither the order nor stock
C9_DeliveredStaysDelivered ==
    [][\A r \in Requests :
         ( /\ Arrives(r, "updateOrderStatus") \/ Arrives(r, "adminUpdateOrderStatus")
           /\ req'[r].order <= Len(orders)
           /\ orders[req'[r].order].status = "delivered"
           /\ req'[r].a.status = "cancelled" )
         => /\ req'[r].pc = "done"
            /\ req'[r].code >= 400
            /\ UNCHANGED <<orders, stock, soldCount>>]_vars

\* C10: the lines of an order are put back on stock at most once
C10_ReleasedAtMostOnce ==
    \A o \in 1..Len(released) : released[o] <= 1

\* C11: a payment failure recorded for an order (handlePaymentFailure, or
\* updatePaymentStatus with status failed) right after its createOrder leaves
\* the order cancelled and every product's stock and soldCount as they were
\* before the createOrder, as a cancelOrder would
C11_FailureReleasesStock ==
    ( /\ calls = 2 /\ Quiet /\ Len(orders) = 1
      /\ req[1].op \in {"handlePaymentFailure", "updatePaymentStatus"}
      /\ req[1].code = 200
      /\ orders[1].payment.status = "failed" )
    => /\ orders[1].status = "cancelled"
       /\ stock = [p \in Products |-> MaxStock]
       /\ soldCount = [p \in Products |-> 0]

\* C12: of two cancelOrder requests for the same order, also when their steps
\* interleave, one takes effect and the other is answered with an error, and
\* the lines of the order are put back on stock at most once
C12_OneCancelWins ==
    /\ \A r1, r2 \in Requests :
          ( /\ r1 # r2
            /\ req[r1].op = "cancelOrder" /\ req[r2].op = "cancelOrder"
            /\ req[r1].order = req[r2].order
            /\ req[r1].pc = "done" /\ req[r2].pc = "done"
            /\ req[r1].code = 200 )
          => req[r2].code >= 400
    /\ \A o \in 1..Len(released) : released[o] <= 1

\* C13: for every user, the usageHistory entries of that user never number
\* more than usageLimitPerUser, also when checkouts of the user with the
\* coupon interleave
C13_PerUserLimitHolds ==
    \A u \in Users :
        Cardinality({i \in 1..Len(coupon.usageHistory) : coupon.usageHistory[i].user = u})
            <= coupon.usageLimitPerUser

\* C14: when an updateOrderStatus request (of the order controller or of the
\* admin controller) that moves a cod order to delivered is answered 200, the
\* stored order is delivered, shipping.deliveredAt is set, payment.status is
\* completed and payment.paidAt is set
C14_CodDeliveredIsPaid ==
    [][\A r \in Requests :
         ( /\ req[r].op \in {"updateOrderStatus", "adminUpdateOrderStatus"}
           /\ req[r].pc = "save"
           /\ req[r].a.status = "delivered"
           /\ orders[req[r].order].payment.method = "cod"
           /\ Answers(r) /\ req'[r].code = 200 )
         => LET o == orders'[req[r].order]
            IN /\ o.status = "delivered"
               /\ o.shipping.deliveredAt # NoNumber
               /\ o.payment.status = "completed"
               /\ o.payment.paidAt # NoNumber]_vars

\* the request in flight in slot r is a payment confirmation
Confirms(r) ==
    \/ req[r].op = "verifyRazorpayPayment"
    \/ req[r].op = "updatePaymentStatus" /\ req[r].a.status = "completed"

\* C15: when a payment confirmation (verifyRazorpayPayment with a matching
\* signature, or updatePaymentStatus with status completed) is answered 200,
\* payment.status is completed and paidAt is the time of the request; the
\* order is confirmed if it was pending, and otherwise its status and
\* statusHistory are as before
C15_ConfirmationCompletesPayment ==
    [][\A r \in Requests :
         (req[r].pc = "save" /\ Confirms(r) /\ Answers(r) /\ req'[r].code = 200)
         => LET before == orders[req[r].order]
                after == orders'[req[r].order]
            IN /\ after.payment.status = "completed"
               /\ after.payment.paidAt = req[r].l.now
               /\ after.status = IF before.status = "pending" THEN "confirmed"
                                 ELSE before.status
               /\ before.status # "pending"
                     => after.statusHistory = before.statusHistory]_vars

\* C15, its case: a shipped order whose payment verifyRazorpayPayment has
\* completed, still shipped
C15_Witness ==
    /\ req[1].op = "verifyRazorpayPayment" /\ req[1].pc = "done" /\ req[1].code = 200
    /\ LET o == orders[req[1].order]
       IN /\ o.status = "shipped"
          /\ o.payment.status = "completed"
          /\ o.payment.paidAt = calls

\* C16: a payment confirmation (verifyRazorpayPayment, or updatePaymentStatus
\* with status completed) that arrives for an order whose payment is already
\* completed is answered with an error and not carried out
C16_AlreadyReconciledRejected ==
    [][\A r \in Requests :
         LET q == req'[r]
         IN ( /\ Arrives(r, q.op)
              /\ q.op \in {"verifyRazorpayPayment", "updatePaymentStatus"}
              /\ q.order \in 1..Len(orders)
              /\ orders[q.order].payment.status = "completed"
              /\ (q.pc = "save" /\ q.op = "updatePaymentStatus")
                    => q.a.status = "completed" )
            => q.pc = "done" /\ q.code >= 400]_vars

\* C17: a verifyRazorpayPayment or handlePaymentFailure request that names an
\* order of another user is answered with an error and not carried out
C17_PaymentHandlersCheckOwner ==
    [][\A r \in Requests, id \in OrderIds, actor \in Users :
         ( /\ id <= Len(orders)
           /\ orders[id].user # actor
           /\ \/ HandlePaymentFailure(r, id, actor)
              \/ \E pid \in PaymentIds, sig \in Signatures :
                    VerifyRazorpayPayment(r, id, actor, pid, sig) )
         => req'[r].pc = "done" /\ req'[r].code >= 400]_vars

\* C18: a cancelOrder request by a user who is not an admin and does not own
\* the order is answered 403, holds no document to save, and changes neither
\* the order nor any stock
C18_StrangerCannotCancel ==
    [][\A r \in Requests, id \in OrderIds, actor \in Users :
         ( /\ id <= Len(orders)
           /\ orders[id].user # actor
           /\ CancelOrder(r, id, actor, "customer request") )
         => /\ req'[r].pc = "done" /\ req'[r].code = 403
            /\ req'[r].l = <<>>
            /\ UNCHANGED <<orders, stock, soldCount>>]_vars

\* C18, its case: a cancelOrder answered 403 for an order that could still be
\* cancelled and whose units are still reserved
C18_Witness ==
    /\ req[1].op = "cancelOrder" /\ req[1].pc = "done" /\ req[1].code = 403
    /\ orders[req[1].order].status = "pending"
    /\ orders[req[1].order].cancellation = None
    /\ stock["p1"] < MaxStock

\* C19: for every coupon and every orderAmount >= 0, calculateDiscount returns
\* min(min(base, maximumDiscountAmount), orderAmount), without the inner min
\* when maximumDiscountAmount is absent, where base is orderAmount * value /
\* 100 for a percentage coupon and value for a fixed one; and the value
\* returned lies between 0 and orderAmount
C19_DiscountFormula ==
    \A r \in Requests :
        req[r].op = "calculateDiscount"
        => LET orderAmount == req[r].a.orderAmount
               discount == req[r].l.discount
               base == IF coupon.type = "percentage"
                       THEN (orderAmount * coupon.value) \div 100
                       ELSE coupon.value
               capped == IF coupon.maximumDiscountAmount = NoNumber THEN base
                         ELSE Min(base, coupon.maximumDiscountAmount)
           IN /\ discount = Min(capped, orderAmount)
              /\ 0 <= discount /\ discount <= orderAmount

\* the orders of user u that are not cancelled
NonCancelledOrders(u) ==
    Cardinality({o \in 1..Len(orders) : orders[o].user = u /\ orders[o].status # "cancelled"})

\* C20: a firstTimeUserOnly coupon that passes every other check is accepted,
\* by createOrder and by validateCoupon alike, exactly when the user has no
\* earlier order in a status other than cancelled
C20_FirstTimeMeansNoLiveOrder ==
    [][\A r \in Requests :
         /\ ( /\ req[r].op = "createOrder" /\ req[r].pc = "count"
              /\ req'[r] # req[r]
              /\ req[r].l.couponDoc[1].firstTimeUserOnly
              /\ isValidForUser([req[r].l.couponDoc[1] EXCEPT !.firstTimeUserOnly = FALSE],
                                req[r].a.user, req[r].l.subtotal, 0, req[r].l.now) )
            => (req'[r].pc # "done" <=> NonCancelledOrders(req[r].a.user) = 0)
         /\ \A actor \in Users, orderAmount \in ValidateAmounts \ {0} :
              ( /\ ValidateCoupon(r, "save10", orderAmount,
                                  <<[product |-> "p1", quantity |-> 1]>>, actor)
                /\ coupon.isActive /\ coupon.firstTimeUserOnly
                /\ ValidationErrors([coupon EXCEPT !.firstTimeUserOnly = FALSE],
                                    actor, orderAmount,
                                    <<[product |-> "p1", quantity |-> 1]>>,
                                    0, calls + 1) = <<>> )
              => (req'[r].code = 200 <=> NonCancelledOrders(actor) = 0)]_vars

\* createOrder, in slot r, has read the coupon and takes the step that accepts
\* or rejects it
ChecksCoupon(r) ==
    req[r].op = "createOrder" /\ req[r].pc = "count" /\ req'[r] # req[r]

\* C21: createOrder rejects a coupon whose applicableProducts or
\* applicableCategories is non-empty when no product of the cart is in
\* applicableProducts and no product's category is in applicableCategories
C21_InclusionListsScopeCheckout ==
    [][\A r \in Requests :
         ( /\ ChecksCoupon(r)
           /\ LET c == req[r].l.couponDoc[1]
              IN /\ c.applicableProducts # {} \/ c.applicableCategories # {}
                 /\ ~HasApplicableProducts(c, CartProducts(req[r].a.items)) )
         => req'[r].pc = "done" /\ req'[r].code = 400]_vars

\* C22: a coupon is rejected when a product of the cart is in excludedProducts
\* or its category is in excludedCategories, whatever the inclusion lists
\* say: by createOrder, by validateCoupon for the cart it is sent, and by the
\* validateCoupon that is sent no cart when the coupon excludes every product
C22_ExclusionWins ==
    [][\A r \in Requests :
         /\ ( /\ ChecksCoupon(r)
              /\ HasExcludedProducts(req[r].l.couponDoc[1], CartProducts(req[r].a.items)) )
            => req'[r].pc = "done" /\ req'[r].code = 400
         /\ \A actor \in Users, orderAmount \in ValidateAmounts \ {0}, cartItems \in Carts :
              ( /\ ValidateCoupon(r, "save10", orderAmount, cartItems, actor)
                /\ coupon.isActive
                /\ HasExcludedProducts(coupon, CartProducts(cartItems)) )
              => req'[r].code = 400
         /\ \A actor \in Users, orderAmount \in ValidateAmounts \ {0} :
              ( /\ ValidateCouponByMethod(r, "save10", orderAmount, actor)
                /\ coupon.excludedProducts = Products )
              => req'[r].code = 400]_vars

\* C23: in every order created, each line's price is the catalog price of its
\* product, whatever price the request carried for the line, each line's
\* subtotal is price * quantity, and pricing.subtotal is the sum of the line
\* subtotals
C23_ServerPrices ==
    \A o \in 1..Len(orders) :
        LET items == orders[o].items
        IN /\ \A i \in 1..Len(items) :
                 /\ items[i].price = productPrice[items[i].product]
                 /\ items[i].subtotal = items[i].price * items[i].quantity
           /\ orders[o].pricing.subtotal =
                 SumSeq([i \in 1..Len(items) |-> items[i].subtotal])

\* C23, its case: an order of two lines just persisted by a checkout whose
\* request carried other prices for both lines
C23_Witness ==
    \E r \in Requests :
        /\ req[r].op = "createOrder" /\ req[r].pc = "stock"
        /\ Len(req[r].a.items) = 2
        /\ Len(orders[req[r].order].items) = 2
        /\ \A i \in 1..2 : req[r].a.items[i].price # orders[req[r].order].items[i].price

\* the usageHistory entries of the coupon that name order o
RedemptionsOf(o) ==
    Cardinality({i \in 1..Len(coupon.usageHistory) : coupon.usageHistory[i].order = o})

\* C24: no order has more than one usageHistory entry, and once the requests
\* are answered an order that carries the coupon has exactly one, whether the
\* coupon came with createOrder or with applyCoupon
C24_RedeemedOncePerOrder ==
    \A o \in 1..Len(orders) :
        /\ RedemptionsOf(o) <= 1
        /\ (Quiet /\ orders[o].coupon # None) => RedemptionsOf(o) = 1

\* C25: when createOrder persists its order, the stock of every product has
\* already been reduced by the order's quantity of it; and when createOrder
\* records a redemption, the order it names is persisted and its stock reserved
C25_ReserveThenPersistThenRedeem ==
    [][\A r \in Requests :
         (req[r].op = "createOrder" /\ Running(r) /\ req'[r] # req[r])
         => /\ Len(orders') > Len(orders)
               => \A p \in Products :
                     stock[p] = req[r].l.pre.stock[p] - QtyOf(orders'[Len(orders')].items, p)
            /\ Len(coupon'.usageHistory) > Len(coupon.usageHistory)
               => LET o == coupon'.usageHistory[Len(coupon'.usageHistory)].order
                  IN /\ o \in 1..Len(orders)
                     /\ \A p \in Products :
                           stock[p] = req[r].l.pre.stock[p] - QtyOf(orders[o].items, p)]_vars

\* C26: after a createOrder that went through and a cancelOrder or
\* updateOrderStatus for its order that has been answered, with 200 or, a
\* store write of it having thrown, with 500: the order is cancelled and all
\* its units are back on stock, or it is not cancelled and all its units are
\* still reserved
C26_CancelIsOneUnit ==
    ( /\ calls = 2 /\ Quiet /\ Len(orders) = 1
      /\ req[1].op \in {"cancelOrder", "updateOrderStatus"}
      /\ req[1].order = 1
      /\ faults = 0 \/ req[1].code = 500 )
    => IF orders[1].status = "cancelled"
       THEN /\ released[1] = 1
            /\ \A p \in Products : stock[p] = MaxStock
       ELSE /\ released[1] = 0
            /\ \A p \in Products : stock[p] = MaxStock - QtyOf(orders[1].items, p)

TerminalStatuses == {"delivered", "cancelled", "refunded"}

\* C28: no step changes the status of a stored order that is delivered,
\* cancelled or refunded
C28_TerminalStaysTerminal ==
    [][\A o \in 1..Len(orders) :
         orders[o].status \in TerminalStatuses => orders'[o].status = orders[o].status]_vars

\* C29: when an updateOrderStatus request (of the order controller or of the
\* admin controller) that moves an order to delivered is answered 200 and the
\* order's payment method is not cod, the stored payment.status and
\* payment.paidAt are as they were
C29_DeliveryPaysCodOnly ==
    [][\A r \in Requests :
         ( /\ req[r].op \in {"updateOrderStatus", "adminUpdateOrderStatus"}
           /\ req[r].pc = "save"
           /\ req[r].a.status = "delivered"
           /\ orders[req[r].order].payment.method # "cod"
           /\ Answers(r) /\ req'[r].code = 200 )
         => /\ orders'[req[r].order].status = "delivered"
            /\ orders'[req[r].order].payment = orders[req[r].order].payment]_vars

\* C30: when createOrder takes the step that accepts or rejects the coupon,
\* validateCoupon asked at that moment by the same user for the same code,
\* cart and cart total answers 200 exactly if createOrder accepts, and then
\* reports the discount createOrder computes
C30_ValidateAgreesWithCheckout ==
    [][\A r \in Requests :
         ChecksCoupon(r)
         => LET q == req[r]
                answer == ValidateResponse(q.a.couponCode, q.l.subtotal, q.a.items,
                                           q.a.user, q.l.now)
            IN /\ answer.code = 200 <=> req'[r].pc # "done"
               /\ answer.code = 200 => answer.l.discountAmount = req'[r].l.discount]_vars

====
